---- MODULE Spec2Model ----
(***************************************************************************)
(* Model of the Cython kernels of qurry's randomized-measurement           *)
(* post-processing (src/qurry/boost/randomized.pyx): ensembleCell,         *)
(* cycling_slice, purityCellCore and echoCellCore.                         *)
(*                                                                         *)
(* A str is a sequence of characters (bits 0/1 for outcomes, decimal       *)
(* digits for the dummy string).  A dict is the sequence of its            *)
(* <<key, value>> items in insertion order, keys pairwise distinct.  A     *)
(* double is an exact rational <<numerator, denominator>> in lowest terms  *)
(* with a positive denominator: rounding is not modelled.  A call ends in  *)
(* [kind |-> "return", value |-> v] or [kind |-> "raise", exc |-> e].      *)
(***************************************************************************)
EXTENDS Integers, Sequences, FiniteSets, TLC

VARIABLES fn, args, pc, result, terms, pending, purityCells

vars == <<fn, args, pc, result, terms, pending, purityCells>>

(* ----------------------------- bounds ---------------------------------- *)

\* longest str handed to ensembleCell and cycling_slice
MaxLen == 3
\* largest count and shots argument of ensembleCell
MaxCount == 2
\* number of bits of the outcomes (keys) of a counts dict
KeyLen == 1
\* largest total of the counts of a counts dict
MaxShots == 3
\* largest subsystemSize / aNum
MaxSize == 2

(* ------------------------- Python primitives --------------------------- *)

Min(a, b) == IF a < b THEN a ELSE b
Max(a, b) == IF a > b THEN a ELSE b
Abs(a) == IF a < 0 THEN -a ELSE a

RECURSIVE Pow(_, _)
Pow(b, e) == IF e = 0 THEN 1 ELSE b * Pow(b, e - 1)

RECURSIVE Gcd(_, _)
Gcd(a, b) == IF b = 0 THEN a ELSE Gcd(b, a % b)

\* a double, as the exact rational n/d in lowest terms, d > 0
Rat(n, d) ==
    LET s == IF d < 0 THEN -1 ELSE 1
        g == Gcd(Abs(n), Abs(d))
    IN  <<(s * n) \div g, (s * d) \div g>>

RMul(x, y) == Rat(x[1] * y[1], x[2] * y[2])
RAdd(x, y) == Rat(x[1] * y[2] + y[1] * x[2], x[2] * y[2])
RZero == <<0, 1>>

Return(v) == [kind |-> "return", value |-> v]
Raise(e) == [kind |-> "raise", exc |-> e]
NoResult == [kind |-> "none"]

\* the base class of the built-in exceptions the kernels raise
ExcBase ==
    [e \in {"AssertionError", "ValueError", "LookupError", "ArithmeticError"}
        |-> "Exception"]
    @@ ("IndexError" :> "LookupError")
    @@ ("ZeroDivisionError" :> "ArithmeticError")

\* does `except handler:` catch an exception of class exc
RECURSIVE Catches(_, _)
Catches(handler, exc) ==
    \/ exc = handler
    \/ exc \in DOMAIN ExcBase /\ Catches(handler, ExcBase[exc])

\* the index a slice bound i denotes in a sequence of length len
SliceIndex(i, len) == IF i < 0 THEN Max(i + len, 0) ELSE Min(i, len)

\* s[start:end]
Slice(s, start, end) ==
    LET lo == SliceIndex(start, Len(s))
        hi == SliceIndex(end, Len(s))
    IN  IF lo >= hi THEN << >> ELSE SubSeq(s, lo + 1, hi)

\* s[start:]
SliceFrom(s, start) == SubSeq(s, SliceIndex(start, Len(s)) + 1, Len(s))

\* s[:end]
SliceTo(s, end) == SubSeq(s, 1, SliceIndex(end, Len(s)))

\* s[::step], step # 0
Stride(s, step) ==
    IF step > 0
    THEN [i \in 1..((Len(s) + step - 1) \div step) |-> s[(i - 1) * step + 1]]
    ELSE [i \in 1..((Len(s) - step - 1) \div (-step)) |-> s[Len(s) + (i - 1) * step]]

\* zip(a, b) truncated to the shorter argument, then sum of s1 != s2
RECURSIVE ZipDiff(_, _)
ZipDiff(a, b) ==
    IF a = << >> \/ b = << >> THEN 0
    ELSE (IF Head(a) # Head(b) THEN 1 ELSE 0) + ZipDiff(Tail(a), Tail(b))

(* ----------------------------- ensembleCell ---------------------------- *)

\* every zipped pair counted as different: diff = min(len(sAi), len(sAj))
ensembleCellAllDiffer(sAi, sAiMeas, sAj, sAjMeas, aNum, shots) ==
    LET diff == Min(Len(sAi), Len(sAj))
    IN  IF shots = 0 THEN Raise("ZeroDivisionError")
        ELSE Return(RMul(RMul(RMul(Rat(Pow(2, aNum), 1), Rat(1, Pow(-2, diff))),
                              Rat(sAiMeas, shots)), Rat(sAjMeas, shots)))

\* the count of the first outcome used for both factors
ensembleCellSameCount(sAi, sAiMeas, sAj, sAjMeas, aNum, shots) ==
    LET diff == ZipDiff(sAi, sAj)
    IN  IF shots = 0 THEN Raise("ZeroDivisionError")
        ELSE Return(RMul(RMul(RMul(Rat(Pow(2, aNum), 1), Rat(1, Pow(-2, diff))),
                              Rat(sAiMeas, shots)), Rat(sAiMeas, shots)))

\* pow(2, -diff) in place of pow(-2, -diff)
ensembleCellNoSign(sAi, sAiMeas, sAj, sAjMeas, aNum, shots) ==
    LET diff == ZipDiff(sAi, sAj)
    IN  IF shots = 0 THEN Raise("ZeroDivisionError")
        ELSE Return(RMul(RMul(RMul(Rat(Pow(2, aNum), 1), Rat(1, Pow(2, diff))),
                              Rat(sAiMeas, shots)), Rat(sAjMeas, shots)))

\* the 2^aNum prefactor left out
ensembleCellNoPrefactor(sAi, sAiMeas, sAj, sAjMeas, aNum, shots) ==
    LET diff == ZipDiff(sAi, sAj)
    IN  IF shots = 0 THEN Raise("ZeroDivisionError")
        ELSE Return(RMul(RMul(Rat(1, Pow(-2, diff)),
                              Rat(sAiMeas, shots)), Rat(sAjMeas, shots)))

ensembleCell(sAi, sAiMeas, sAj, sAjMeas, aNum, shots) ==
    LET diff == ZipDiff(sAi, sAj)
    IN  IF shots = 0 THEN Raise("ZeroDivisionError")
        ELSE Return(RMul(RMul(RMul(Rat(Pow(2, aNum), 1), Rat(1, Pow(-2, diff))),
                              Rat(sAiMeas, shots)), Rat(sAjMeas, shots)))

(* ----------------------------- cycling_slice --------------------------- *)

\* the guard with start < -length in place of start <= -length
cycling_sliceStrictGuard(target, start, end, step) ==
    LET length == Len(target)
        newString ==
            IF length <= 0 THEN target
            ELSE IF start < 0 /\ end >= 0
                 THEN SliceFrom(target, start) \o SliceTo(target, end)
                 ELSE Slice(target, start, end)
    IN  IF start < -length /\ end >= length THEN Raise("IndexError")
        ELSE IF step = 0 THEN Raise("ValueError")
        ELSE Return(Stride(newString, step))

\* the concatenating branch taken for every negative start
cycling_sliceWrapOnNegStart(target, start, end, step) ==
    LET length == Len(target)
        newString ==
            IF length <= 0 THEN target
            ELSE IF start < 0
                 THEN SliceFrom(target, start) \o SliceTo(target, end)
                 ELSE Slice(target, start, end)
    IN  IF start <= -length /\ end >= length THEN Raise("IndexError")
        ELSE IF step = 0 THEN Raise("ValueError")
        ELSE Return(Stride(newString, step))

\* the head slice concatenated before the tail slice
cycling_sliceHeadFirst(target, start, end, step) ==
    LET length == Len(target)
        newString ==
            IF length <= 0 THEN target
            ELSE IF start < 0 /\ end >= 0
                 THEN SliceTo(target, end) \o SliceFrom(target, start)
                 ELSE Slice(target, start, end)
    IN  IF start <= -length /\ end >= length THEN Raise("IndexError")
        ELSE IF step = 0 THEN Raise("ValueError")
        ELSE Return(Stride(newString, step))

\* the stride applied to the tail and to the head before they are concatenated
cycling_sliceStrideFirst(target, start, end, step) ==
    LET length == Len(target)
    IN  IF start <= -length /\ end >= length THEN Raise("IndexError")
        ELSE IF step = 0 THEN Raise("ValueError")
        ELSE IF length <= 0 THEN Return(Stride(target, step))
        ELSE IF start < 0 /\ end >= 0
        THEN Return(Stride(SliceFrom(target, start), step)
                    \o Stride(SliceTo(target, end), step))
        ELSE Return(Stride(Slice(target, start, end), step))

\* the wrap branch taken for start <= 0 in place of start < 0
cycling_sliceWrapFromZero(target, start, end, step) ==
    LET length == Len(target)
        newString ==
            IF length <= 0 THEN target
            ELSE IF start <= 0 /\ end >= 0
                 THEN SliceFrom(target, start) \o SliceTo(target, end)
                 ELSE Slice(target, start, end)
    IN  IF start <= -length /\ end >= length THEN Raise("IndexError")
        ELSE IF step = 0 THEN Raise("ValueError")
        ELSE Return(Stride(newString, step))

cycling_slice(target, start, end, step) ==
    LET length == Len(target)
        newString ==
            IF length <= 0 THEN target
            ELSE IF start < 0 /\ end >= 0
                 THEN SliceFrom(target, start) \o SliceTo(target, end)
                 ELSE Slice(target, start, end)
    IN  IF start <= -length /\ end >= length THEN Raise("IndexError")
        ELSE IF step = 0 THEN Raise("ValueError")
        ELSE Return(Stride(newString, step))

(* --------------------------------- dict -------------------------------- *)

\* sum(d.values())
RECURSIVE SumValues(_)
SumValues(d) == IF d = << >> THEN 0 ELSE Head(d)[2] + SumValues(Tail(d))

HasKey(d, k) == \E i \in 1..Len(d) : d[i][1] = k

\* dict.fromkeys(keys, 0): one item per distinct key, in order of first occurrence
RECURSIVE FromKeys(_, _)
FromKeys(keys, d) ==
    IF keys = << >> THEN d
    ELSE FromKeys(Tail(keys),
                  IF HasKey(d, Head(keys)) THEN d ELSE Append(d, <<Head(keys), 0>>))

\* d[k] = v in place of d[k] += v
AddToAssign(d, k, v) ==
    [i \in 1..Len(d) |-> IF d[i][1] = k THEN <<k, v>> ELSE d[i]]

\* d[k] += v, k a key of d
AddTo(d, k, v) ==
    [i \in 1..Len(d) |-> IF d[i][1] = k THEN <<k, d[i][2] + v>> ELSE d[i]]

\* for bitString in list(counts): d[keyOf[bitString]] += counts[bitString]
\* (newKeys[i] is the extracted key of the i-th item of counts)
RECURSIVE Accumulate(_, _, _, _)
Accumulate(counts, newKeys, i, d) ==
    IF i > Len(counts) THEN d
    ELSE Accumulate(counts, newKeys, i + 1, AddTo(d, newKeys[i], counts[i][2]))

\* str(i) as its decimal digits
RECURSIVE Digits(_)
Digits(i) == IF i < 10 THEN <<i>> ELSE Digits(i \div 10) \o <<i % 10>>

\* ''.join([str(ds) for ds in range(n)])
RECURSIVE DummyString(_)
DummyString(n) == IF n <= 0 THEN << >> ELSE DummyString(n - 1) \o Digits(n - 1)

(* --------------------------- the pair loops ---------------------------- *)

\* for sAj, sAjMeas in B.items(): cell += ensembleCell(sAi, sAiMeas, sAj, sAjMeas, n, shots)
\* st = [out: the running cell value or the exception raised, terms: terms added]
RECURSIVE InnerLoop(_, _, _, _, _, _)
InnerLoop(item, B, j, n, shots, st) ==
    IF j > Len(B) \/ st.out.kind = "raise" THEN st
    ELSE LET e == ensembleCell(item[1], item[2], B[j][1], B[j][2], n, shots)
         IN  InnerLoop(item, B, j + 1, n, shots,
                 IF e.kind = "raise" THEN [out |-> e, terms |-> st.terms]
                 ELSE [out |-> Return(RAdd(st.out.value, e.value)),
                       terms |-> st.terms + 1])

\* for sAi, sAiMeas in A.items(): <inner loop over B>
RECURSIVE OuterLoop(_, _, _, _, _, _)
OuterLoop(A, B, i, n, shots, st) ==
    IF i > Len(A) \/ st.out.kind = "raise" THEN st
    ELSE OuterLoop(A, B, i + 1, n, shots, InnerLoop(A[i], B, 1, n, shots, st))

PairSum(A, B, n, shots) ==
    OuterLoop(A, B, 1, n, shots, [out |-> Return(RZero), terms |-> 0])

(* ---------------------------- purityCellCore --------------------------- *)

\* the extracted key of every item of counts by plain slicing
SliceKeys(counts, range) ==
    [i \in 1..Len(counts) |-> Slice(counts[i][1], range[1], range[2])]

\* the cycling_slice(k, start, end, 1) call of every item of counts
CyclingCalls(counts, range) ==
    [i \in 1..Len(counts) |-> cycling_slice(counts[i][1], range[1], range[2], 1)]

\* the comparison of lines 47, 48 taken as true whenever cycling_slice returns
DummyAlwaysAgrees(range, subsystemSize) ==
    LET dummyString == DummyString(subsystemSize)
        c == cycling_slice(dummyString, range[1], range[2], 1)
    IN  IF c.kind = "raise" THEN c ELSE Return(TRUE)

\* lines 47, 48: does plain slicing of the dummy string agree with cycling_slice
\* (a call record: cycling_slice on the dummy string may raise)
DummyAgrees(range, subsystemSize) ==
    LET dummyString == DummyString(subsystemSize)
        c == cycling_slice(dummyString, range[1], range[2], 1)
    IN  IF c.kind = "raise" THEN c
        ELSE Return(Slice(dummyString, range[1], range[2]) = c.value)

\* singleCountsUnderDegree, lines 47 to 63
purityGroup(singleCounts, bitStringRange, subsystemSize) ==
    LET agrees == DummyAgrees(bitStringRange, subsystemSize)
        calls == CyclingCalls(singleCounts, bitStringRange)
    IN  IF agrees.kind = "raise" THEN agrees
        ELSE IF agrees.value
        THEN LET ks == SliceKeys(singleCounts, bitStringRange)
             IN  Return(Accumulate(singleCounts, ks, 1, FromKeys(ks, << >>)))
        ELSE IF \E i \in 1..Len(calls) : calls[i].kind = "raise"
        THEN calls[CHOOSE i \in 1..Len(calls) : calls[i].kind = "raise"]
        ELSE LET ks == [i \in 1..Len(calls) |-> calls[i].value]
             IN  Return(Accumulate(singleCounts, ks, 1, FromKeys(ks, << >>)))

\* shots taken as len(singleCounts) in place of sum(singleCounts.values())
purityCellShotsByLen(singleCounts, bitStringRange, subsystemSize) ==
    LET shots == Len(singleCounts)
        g == purityGroup(singleCounts, bitStringRange, subsystemSize)
    IN  IF g.kind = "raise" THEN [out |-> g, terms |-> 0]
        ELSE PairSum(g.value, g.value, subsystemSize, shots)

purityCell(singleCounts, bitStringRange, subsystemSize) ==
    LET shots == SumValues(singleCounts)
        g == purityGroup(singleCounts, bitStringRange, subsystemSize)
    IN  IF g.kind = "raise" THEN [out |-> g, terms |-> 0]
        ELSE PairSum(g.value, g.value, subsystemSize, shots)

purityCellCore(singleCounts, bitStringRange, subsystemSize) ==
    purityCell(singleCounts, bitStringRange, subsystemSize).out

\* the counts accumulated in singleCounts itself, not in a new dict
purityCellCoreCountsInPlace(singleCounts, bitStringRange, subsystemSize) ==
    LET g == purityGroup(singleCounts, bitStringRange, subsystemSize)
    IN  IF g.kind = "raise" THEN singleCounts ELSE g.value

\* the dict singleCounts as the call leaves it: lines 43 to 63 only read it;
\* the counts are accumulated in the new dict singleCountsUnderDegree made by
\* dict.fromkeys
purityCellCoreCounts(singleCounts, bitStringRange, subsystemSize) == singleCounts

(* ----------------------------- echoCellCore ---------------------------- *)

\* the series paired on its whole outcomes, the range not applied
echoGroupUnsliced(counts, bitStringRange) == counts

\* firstCountsUnderDegree / secondCountsUnderDegree, lines 83 to 95
echoGroup(counts, bitStringRange) ==
    LET ks == SliceKeys(counts, bitStringRange)
    IN  Accumulate(counts, ks, 1, FromKeys(ks, << >>))

\* the inner loop over the first series again
echoCellSelfPairs(firstCounts, secondCounts, bitStringRange, subsystemSize) ==
    LET shots == SumValues(firstCounts)
        shots2 == SumValues(secondCounts)
    IN  IF shots # shots2 THEN [out |-> Raise("AssertionError"), terms |-> 0]
        ELSE PairSum(echoGroup(firstCounts, bitStringRange),
                     echoGroup(firstCounts, bitStringRange),
                     subsystemSize, shots)

\* the assert on the two totals left out
echoCellNoCheck(firstCounts, secondCounts, bitStringRange, subsystemSize) ==
    PairSum(echoGroup(firstCounts, bitStringRange),
            echoGroup(secondCounts, bitStringRange),
            subsystemSize, SumValues(firstCounts))

echoCell(firstCounts, secondCounts, bitStringRange, subsystemSize) ==
    LET shots == SumValues(firstCounts)
        shots2 == SumValues(secondCounts)
    IN  IF shots # shots2 THEN [out |-> Raise("AssertionError"), terms |-> 0]
        ELSE PairSum(echoGroup(firstCounts, bitStringRange),
                     echoGroup(secondCounts, bitStringRange),
                     subsystemSize, shots)

echoCellCore(firstCounts, secondCounts, bitStringRange, subsystemSize) ==
    echoCell(firstCounts, secondCounts, bitStringRange, subsystemSize).out

\* the dicts firstCounts and secondCounts as the call leaves them: they are
\* only read (lines 79 to 95); the counts are accumulated in the new
\* dicts firstCountsUnderDegree and secondCountsUnderDegree
echoCellCoreCounts(firstCounts, secondCounts, bitStringRange, subsystemSize) ==
    <<firstCounts, secondCounts>>

(* ------------------------------- inputs -------------------------------- *)

Bits == {0, 1}
StrsOfLen(n) == [1..n -> Bits]
Strs(n) == UNION {StrsOfLen(k) : k \in 0..n}
Steps == {-2, -1, 0, 1, 2}

\* slice bounds of cycling_slice: one beyond the longest target on both sides
Idx == (-(MaxLen + 1))..(MaxLen + 1)

\* bit ranges of the cells: one beyond the outcome length on both sides
Ranges == ((-(KeyLen + 1))..(KeyLen + 1)) \X ((-(KeyLen + 1))..(KeyLen + 1))

Outcomes == StrsOfLen(KeyLen)

\* the outcome read as a binary number
RECURSIVE BitVal(_)
BitVal(s) == IF s = << >> THEN 0 ELSE 2 * BitVal(SubSeq(s, 1, Len(s) - 1)) + s[Len(s)]

\* counts dicts: distinct outcomes, inserted in increasing order, counts >= 0
\* with a total of at most MaxShots
CountsDicts ==
    {c : c \in {d \in UNION {[1..k -> Outcomes \X (0..MaxShots)] :
                                 k \in 0..Cardinality(Outcomes)} :
                    /\ \A i \in 1..(Len(d) - 1) :
                           BitVal(d[i][1]) < BitVal(d[i + 1][1])
                    /\ SumValues(d) <= MaxShots}}

\* the series of an echo: the counts dicts without zero counts
EchoDicts ==
    {c : c \in {d \in CountsDicts : \A i \in 1..Len(d) : d[i][2] >= 1}}

\* outcomes of 1 to KeyLen + 1 bits
WideOutcomes == Strs(KeyLen + 1) \ {<< >>}

\* the rank of a str by length, then by binary value
StrRank(s) == Pow(2, Len(s)) + BitVal(s)

\* counts dicts of one or two outcomes of possibly different lengths,
\* positive counts with a total of at most MaxShots
WideDicts ==
    {c : c \in {d \in UNION {[1..k -> WideOutcomes \X (1..MaxShots)] :
                                 k \in {1, 2}} :
                    /\ \A i \in 1..(Len(d) - 1) :
                           StrRank(d[i][1]) < StrRank(d[i + 1][1])
                    /\ SumValues(d) <= MaxShots}}

(* ------------------------------ ensemble spec -------------------------- *)

InitEnsemble ==
    /\ fn = "ensembleCell"
    /\ args \in [sAi : Strs(MaxLen), sAiMeas : 0..MaxCount,
                 sAj : Strs(MaxLen), sAjMeas : 0..MaxCount,
                 aNum : 0..MaxSize, shots : 0..MaxCount]
    /\ pc = "call"
    /\ result = NoResult
    /\ terms = 0
    /\ pending = {}
    /\ purityCells = << >>

CallEnsembleCell ==
    /\ fn = "ensembleCell" /\ pc = "call"
    /\ result' = ensembleCell(args.sAi, args.sAiMeas, args.sAj, args.sAjMeas,
                              args.aNum, args.shots)
    /\ pc' = "done"
    /\ UNCHANGED <<fn, args, terms, pending, purityCells>>

SpecEnsemble == InitEnsemble /\ [][CallEnsembleCell]_vars

(* ------------------------------- slice spec ---------------------------- *)

InitSlice ==
    /\ fn = "cycling_slice"
    /\ args \in [target : Strs(MaxLen), start : Idx, end : Idx, step : Steps]
    /\ pc = "call"
    /\ result = NoResult
    /\ terms = 0
    /\ pending = {}
    /\ purityCells = << >>

CallCyclingSlice ==
    /\ fn = "cycling_slice" /\ pc = "call"
    /\ result' = cycling_slice(args.target, args.start, args.end, args.step)
    /\ pc' = "done"
    /\ UNCHANGED <<fn, args, terms, pending, purityCells>>

SpecSlice == InitSlice /\ [][CallCyclingSlice]_vars

(* ------------------------------- purity spec --------------------------- *)

InitPurity ==
    /\ fn = "purityCellCore"
    /\ args \in [singleCounts : CountsDicts, bitStringRange : Ranges,
                 subsystemSize : 0..MaxSize]
    /\ pc = "call"
    /\ result = NoResult
    /\ terms = 0
    /\ pending = {}
    /\ purityCells = << >>

CallPurityCellCore ==
    /\ fn = "purityCellCore" /\ pc = "call"
    /\ LET c == purityCell(args.singleCounts, args.bitStringRange, args.subsystemSize)
       IN  result' = c.out /\ terms' = c.terms
    /\ args' = [args EXCEPT !.singleCounts =
                    purityCellCoreCounts(args.singleCounts, args.bitStringRange,
                                         args.subsystemSize)]
    /\ pc' = "done"
    /\ UNCHANGED <<fn, pending, purityCells>>

SpecPurity == InitPurity /\ [][CallPurityCellCore]_vars

(* ------------- purity spec, outcomes of different lengths -------------- *)

InitPurityWide ==
    /\ fn = "purityCellCore"
    /\ args \in [singleCounts : WideDicts, bitStringRange : Ranges,
                 subsystemSize : 0..MaxSize]
    /\ pc = "call"
    /\ result = NoResult
    /\ terms = 0
    /\ pending = {}
    /\ purityCells = << >>

SpecPurityWide == InitPurityWide /\ [][CallPurityCellCore]_vars

(* -------------------------------- echo spec ---------------------------- *)

InitEcho ==
    /\ fn = "echoCellCore"
    /\ args \in [firstCounts : EchoDicts, secondCounts : EchoDicts,
                 bitStringRange : Ranges, subsystemSize : 0..MaxSize]
    /\ pc = "call"
    /\ result = NoResult
    /\ terms = 0
    /\ pending = {}
    /\ purityCells = << >>

CallEchoCellCore ==
    /\ fn = "echoCellCore" /\ pc = "call"
    /\ LET c == echoCell(args.firstCounts, args.secondCounts, args.bitStringRange,
                         args.subsystemSize)
       IN  result' = c.out /\ terms' = c.terms
    /\ LET a == echoCellCoreCounts(args.firstCounts, args.secondCounts,
                                    args.bitStringRange, args.subsystemSize)
       IN  args' = [args EXCEPT !.firstCounts = a[1], !.secondCounts = a[2]]
    /\ pc' = "done"
    /\ UNCHANGED <<fn, pending, purityCells>>

SpecEcho == InitEcho /\ [][CallEchoCellCore]_vars

(* -------------------------- both cell aggregators ---------------------- *)

SpecCells ==
    (InitPurity \/ InitEcho) /\ [][CallPurityCellCore \/ CallEchoCellCore]_vars


(* --------------------------- BitRange Resolver ------------------------- *)

\* a partition specification: a bare degree d or a pair (a, b)
IntSpec(d) == <<"int", d>>
PairSpec(a, b) == <<"pair", a, b>>

\* a negative index counts from the end of the measured range
Normalize(i, length) == IF i < 0 THEN i + length ELSE i

\* the number of bits of the resolved range <<start, end, wrap>>
WindowSize(r, length) == IF r[3] THEN length - r[1] + r[2] ELSE r[2] - r[1]

\* a bare degree anchored at the start of the measured range
resolveAnchoredAtZero(partition_spec, measured_range_length) ==
    LET r == IF partition_spec[1] = "int"
             THEN <<0, partition_spec[2], FALSE>>
             ELSE LET a == Normalize(partition_spec[2], measured_range_length)
                      b == Normalize(partition_spec[3], measured_range_length)
                  IN  <<a, b, a > b>>
        size == WindowSize(r, measured_range_length)
    IN  IF \/ r[1] \notin 0..measured_range_length
           \/ r[2] \notin 0..measured_range_length
           \/ size <= 0
           \/ size > measured_range_length
        THEN Raise("InvalidPartitionError")
        ELSE Return(r)

\* the bounds clamped into the measured range, no window rejected
resolveClamped(partition_spec, measured_range_length) ==
    LET clamp(i) == Max(0, Min(i, measured_range_length))
        r == IF partition_spec[1] = "int"
             THEN <<clamp(measured_range_length - partition_spec[2]),
                    measured_range_length, FALSE>>
             ELSE LET a == Normalize(partition_spec[2], measured_range_length)
                      b == Normalize(partition_spec[3], measured_range_length)
                  IN  <<clamp(a), clamp(b), clamp(a) > clamp(b)>>
    IN  Return(r)

\* resolve(partition_spec, measured_range_length) -> (start, end, wrap):
\* a bare degree d is the window of the last d bits; a pair is normalized and
\* wraps when its start lies after its end
resolve(partition_spec, measured_range_length) ==
    LET r == IF partition_spec[1] = "int"
             THEN <<measured_range_length - partition_spec[2],
                    measured_range_length, FALSE>>
             ELSE LET a == Normalize(partition_spec[2], measured_range_length)
                      b == Normalize(partition_spec[3], measured_range_length)
                  IN  <<a, b, a > b>>
        size == WindowSize(r, measured_range_length)
    IN  IF \/ r[1] \notin 0..measured_range_length
           \/ r[2] \notin 0..measured_range_length
           \/ size <= 0
           \/ size > measured_range_length
        THEN Raise("InvalidPartitionError")
        ELSE Return(r)

\* the resolved range as the bitStringRange handed to the cell kernels, whose
\* wrapping ranges have a negative start
KernelRange(r, length) == IF r[3] THEN <<r[1] - length, r[2]>> ELSE <<r[1], r[2]>>

(* --------------------------- Multi-Cell Driver ------------------------- *)

RSub(x, y) == RAdd(x, <<-y[1], y[2]>>)

\* the sum of xs[i] over the indices i of the set I
RECURSIVE RSum(_, _)
RSum(xs, I) ==
    IF I = {} THEN RZero
    ELSE LET i == CHOOSE j \in I : TRUE IN RAdd(xs[i], RSum(xs, I \ {i}))

IsSquare(n) == \E k \in 0..n : k * k = n
ISqrt(n) == CHOOSE k \in 0..n : k * k = n

\* the square root of a rational x >= 0: exact when x is the square of a
\* rational, the irrational root as a symbol otherwise
RSqrt(x) ==
    IF IsSquare(x[1]) /\ IsSquare(x[2]) THEN Rat(ISqrt(x[1]), ISqrt(x[2]))
    ELSE <<"sqrt", x[1], x[2]>>

RECURSIVE Log2(_)
Log2(n) == IF n <= 1 THEN 0 ELSE 1 + Log2(n \div 2)

\* -log2(x): exact when x is a power of two, a symbol otherwise
NegLog2(x) ==
    IF x[1] >= 1 /\ x[2] = 1 /\ Pow(2, Log2(x[1])) = x[1] THEN Rat(-Log2(x[1]), 1)
    ELSE IF x[1] = 1 /\ Pow(2, Log2(x[2])) = x[2] THEN Rat(Log2(x[2]), 1)
    ELSE <<"-log2", x[1], x[2]>>

IsRational(x) == Len(x) = 2

\* the sum of the per-cell values, not divided by their number
MeanNoDivide(xs) == RSum(xs, DOMAIN xs)

\* the arithmetic mean of the per-cell values
Mean(xs) == RMul(RSum(xs, DOMAIN xs), Rat(1, Cardinality(DOMAIN xs)))

\* the sample standard deviation of the per-cell values: undefined for fewer
\* than two values, a symbol when a value or the root is irrational
SampleSD(xs) ==
    LET N == Cardinality(DOMAIN xs)
    IN  IF N < 2 THEN <<"nan">>
        ELSE IF \A i, j \in DOMAIN xs : xs[i] = xs[j] THEN RZero
        ELSE IF \A i \in DOMAIN xs : IsRational(xs[i])
        THEN LET m == Mean(xs)
                 sq == [i \in DOMAIN xs |-> RMul(RSub(xs[i], m), RSub(xs[i], m))]
             IN  RSqrt(RMul(RSum(sq, DOMAIN xs), Rat(1, N - 1)))
        ELSE <<"sd", xs, N>>

\* the measured range: the whole outcome
MeasuredLength(counts) == Len(counts[1][1][1])

\* the value a worker computes for the cell at position i (from 0)
CellValue(counts, i, r) ==
    purityCellCore(counts[i + 1], KernelRange(r, MeasuredLength(counts)),
                   WindowSize(r, MeasuredLength(counts)))

\* a reported value stored at the next free position of the table
ReportInArrivalOrder(table, i, v) == table @@ (Cardinality(DOMAIN table) :> v)

\* a worker reports its value back under the index of its cell
Report(table, i, v) == table @@ (i :> v)

\* the Result record of the aggregation
Aggregated(degree, r, table) ==
    [purity |-> Mean(table),
     entropy |-> NegLog2(Mean(table)),
     purityCells |-> table,
     puritySD |-> SampleSD(table),
     entropySD |-> SampleSD([i \in DOMAIN table |-> NegLog2(table[i])]),
     degree |-> degree,
     bitStringRange |-> <<r[1], r[2]>>,
     countsNum |-> Cardinality(DOMAIN table)]

(* ------------------------------ driver spec ---------------------------- *)

\* largest number of cells of one aggregation
MaxCells == 2

\* the outcomes of the measured register, one bit wider than the kernels' keys
DriverLen == KeyLen + 1

\* the cells: MaxShots shots, all on the all-zero outcome or split between
\* the all-zero and the all-one outcome
DriverCells ==
    {<< <<[j \in 1..DriverLen |-> 0], MaxShots>> >>}
    \cup {<< <<[j \in 1..DriverLen |-> 0], c>>,
             <<[j \in 1..DriverLen |-> 1], MaxShots - c>> >> : c \in 1..(MaxShots - 1)}

\* partition specifications: degrees and bounds one beyond the register
Degrees ==
    {IntSpec(d) : d \in 0..(DriverLen + 1)}
    \cup {PairSpec(a, b) : a, b \in (-(DriverLen + 1))..(DriverLen + 1)}

InitDriver ==
    /\ fn = "aggregate"
    /\ args \in [shots : {MaxShots},
                 counts : UNION {[1..k -> DriverCells] : k \in 1..MaxCells},
                 degree : Degrees]
    /\ pc = "call"
    /\ result = NoResult
    /\ terms = 0
    /\ pending = {}
    /\ purityCells = << >>

\* the partition is invalid: the call fails before any cell is dispatched
RejectPartition ==
    /\ fn = "aggregate" /\ pc = "call"
    /\ resolve(args.degree, MeasuredLength(args.counts)).kind = "raise"
    /\ result' = resolve(args.degree, MeasuredLength(args.counts))
    /\ pc' = "done"
    /\ UNCHANGED <<fn, args, terms, pending, purityCells>>

\* every cell is handed to the worker pool
Dispatch ==
    /\ fn = "aggregate" /\ pc = "call"
    /\ resolve(args.degree, MeasuredLength(args.counts)).kind = "return"
    /\ pending' = 0..(Len(args.counts) - 1)
    /\ pc' = "wait"
    /\ UNCHANGED <<fn, args, result, terms, purityCells>>

\* the worker of cell i completes, in any order
Complete(i) ==
    /\ fn = "aggregate" /\ pc = "wait"
    /\ i \in pending
    /\ LET r == resolve(args.degree, MeasuredLength(args.counts)).value
       IN  purityCells' = Report(purityCells, i, CellValue(args.counts, i, r))
    /\ pending' = pending \ {i}
    /\ UNCHANGED <<fn, args, pc, result, terms>>

CompleteCell == \E i \in 0..(MaxCells - 1) : Complete(i)

\* the statistics as soon as one worker has reported, without the join
AggregateWithoutJoin ==
    /\ fn = "aggregate" /\ pc = "wait"
    /\ DOMAIN purityCells # {}
    /\ LET r == resolve(args.degree, MeasuredLength(args.counts)).value
           failed == {i \in DOMAIN purityCells : purityCells[i].kind = "raise"}
       IN  result' =
               IF failed # {}
               THEN purityCells[CHOOSE i \in failed : \A j \in failed : i <= j]
               ELSE Return(Aggregated(args.degree, r,
                        [i \in DOMAIN purityCells |-> purityCells[i].value]))
    /\ pc' = "done"
    /\ UNCHANGED <<fn, args, terms, pending, purityCells>>

\* all workers joined: the statistics over the collected values
Aggregate ==
    /\ fn = "aggregate" /\ pc = "wait"
    /\ pending = {}
    /\ LET r == resolve(args.degree, MeasuredLength(args.counts)).value
           failed == {i \in DOMAIN purityCells : purityCells[i].kind = "raise"}
       IN  result' =
               IF failed # {}
               THEN purityCells[CHOOSE i \in failed : \A j \in failed : i <= j]
               ELSE Return(Aggregated(args.degree, r,
                        [i \in DOMAIN purityCells |-> purityCells[i].value]))
    /\ pc' = "done"
    /\ UNCHANGED <<fn, args, terms, pending, purityCells>>

NextDriver == RejectPartition \/ Dispatch \/ CompleteCell \/ Aggregate

SpecDriver == InitDriver /\ [][NextDriver]_vars

\* the step of the caller out of the join: the position of an Aggregate step
Join ==
    /\ fn = "aggregate" /\ pc = "wait"
    /\ pending = {}
    /\ pc' = "done"
    /\ UNCHANGED <<fn, args, terms, pending, purityCells>>

\* the caller blocks on the join only: once every worker has reported it
\* goes on, computes the statistics and returns
SpecDriverFair == SpecDriver /\ WF_pc(Join)



(* ---------------------- Backend Capability Registry -------------------- *)

\* the backend tiers in priority order: tier 2, tier 1, reference
Tiers == <<"Rust", "Cython", "Python">>

\* availability of one tier for one estimator family: working normally,
\* exception occurred, not supported yet
Availabilities == {"True", "False", "None"}

\* the fastest tier, preferred when the caller pins none
DefaultBackend == Tiers[1]

\* the tiers of the registry row that are supported and working, in priority order
AvailableTiers(row) == SelectSeq(Tiers, LAMBDA b : row[b] = "True")

\* an unavailable pinned backend replaced like an unpinned one
selectBackendSilently(backend, pinned, row) ==
    IF row[backend] = "True" THEN Return([backend |-> backend, warning |-> FALSE])
    ELSE IF AvailableTiers(row) = << >> THEN Raise("BackendUnavailable")
    ELSE Return([backend |-> Head(AvailableTiers(row)), warning |-> FALSE])

\* the backend the driver runs on: the requested one when it is available;
\* else fatal when the caller pinned it, and the first available tier in
\* priority order, with a warning, when the caller did not
selectBackend(backend, pinned, row) ==
    IF row[backend] = "True" THEN Return([backend |-> backend, warning |-> FALSE])
    ELSE IF pinned \/ AvailableTiers(row) = << >> THEN Raise("BackendUnavailable")
    ELSE Return([backend |-> Head(AvailableTiers(row)), warning |-> TRUE])

(* ------------------------------ backend spec --------------------------- *)

InitBackend ==
    /\ fn = "selectBackend"
    /\ args \in {a \in [backend : {Tiers[k] : k \in 1..Len(Tiers)},
                        pinned : BOOLEAN,
                        row : [{Tiers[k] : k \in 1..Len(Tiers)} -> Availabilities]] :
                    ~a.pinned => a.backend = DefaultBackend}
    /\ pc = "call"
    /\ result = NoResult
    /\ terms = 0
    /\ pending = {}
    /\ purityCells = << >>

CallSelectBackend ==
    /\ fn = "selectBackend" /\ pc = "call"
    /\ result' = selectBackend(args.backend, args.pinned, args.row)
    /\ pc' = "done"
    /\ UNCHANGED <<fn, args, terms, pending, purityCells>>

SpecBackend == InitBackend /\ [][CallSelectBackend]_vars


(* -------------------- damerau_levenshtein_distance_cy ------------------ *)

\* the value None, told apart from every sequence of items
None == <<"None">>

\* list[i] with a negative index counted from the end
PyAt(list, i) == list[IF i < 0 THEN Len(list) + i + 1 ELSE i + 1]

\* lines 46 to 49: n rounds, the index moves on while the items at it agree
RECURSIVE first_differing_index(_, _, _, _)
first_differing_index(seq1, seq2, n, index) ==
    IF n = 0 THEN index
    ELSE first_differing_index(seq1, seq2, n - 1,
             IF PyAt(seq1, index) = PyAt(seq2, index) THEN index + 1 ELSE index)

\* lines 61 to 74: the loop over y of row x; rows = <<twoAgo, oneAgo, thisRow>>
RECURSIVE thisRowLoop(_, _, _, _, _)
thisRowLoop(seq1, seq2, x, y, rows) ==
    IF y >= Len(seq2) THEN rows
    ELSE LET twoAgo == rows[1]
             oneAgo == rows[2]
             thisRow == rows[3]
             delCost == PyAt(oneAgo, y) + 1
             addCost == PyAt(thisRow, y - 1) + 1
             subCost == PyAt(oneAgo, y - 1)
                          + (IF PyAt(seq1, x) # PyAt(seq2, y) THEN 1 ELSE 0)
             least == Min(delCost, Min(addCost, subCost))
             cell == IF /\ x > 0 /\ y > 0
                        /\ PyAt(seq1, x) = PyAt(seq2, y - 1)
                        /\ PyAt(seq1, x - 1) = PyAt(seq2, y)
                        /\ PyAt(seq1, x) # PyAt(seq2, y)
                     THEN Min(least, PyAt(twoAgo, y - 2) + 1)
                     ELSE least
         IN  thisRowLoop(seq1, seq2, x, y + 1,
                         <<twoAgo, oneAgo, [thisRow EXCEPT ![y + 1] = cell]>>)

\* lines 59, 60: the loop over x
RECURSIVE rowLoop(_, _, _, _)
rowLoop(seq1, seq2, x, rows) ==
    IF x >= Len(seq1) THEN rows
    ELSE rowLoop(seq1, seq2, x + 1,
             thisRowLoop(seq1, seq2, x, 0,
                 <<rows[2], rows[3], [y \in 1..(Len(seq2) + 1) |->
                                         IF y = Len(seq2) + 1 THEN x + 1 ELSE 0]>>))

\* lines 57 to 76: the dynamic programme on two sequences
lastRow(seq1, seq2) ==
    LET rows == rowLoop(seq1, seq2, 0,
                    << << >>, << >>, [y \in 1..(Len(seq2) + 1) |->
                                        IF y = Len(seq2) + 1 THEN 0 ELSE y]>>)
    IN  PyAt(rows[3], Len(seq2) - 1)

damerau_levenshtein_distance_cy(seq1, seq2) ==
    IF seq1 = None \/ Len(seq1) = 0
    THEN IF seq2 = None THEN Raise("TypeError") ELSE Return(Len(seq2))
    ELSE IF seq2 = None \/ Len(seq2) = 0 THEN Return(Len(seq1))
    ELSE LET index == first_differing_index(seq1, seq2,
                          Min(Len(seq1), Len(seq2)), 0)
         IN  Return(lastRow(SliceFrom(seq1, index), SliceFrom(seq2, index)))

(* ----------------------------- distance spec --------------------------- *)

\* longest sequence handed to damerau_levenshtein_distance_cy
MaxSeq == 3

\* the items of the sequences
Items == {"a", "b", "c"}

\* the arguments: None or a sequence of at most MaxSeq items
SeqArgs == {None} \cup UNION {[1..k -> Items] : k \in 0..MaxSeq}

InitDistance ==
    /\ fn = "damerau_levenshtein_distance_cy"
    /\ args \in [seq1 : SeqArgs, seq2 : SeqArgs]
    /\ pc = "call"
    /\ result = NoResult
    /\ terms = 0
    /\ pending = {}
    /\ purityCells = << >>

CallDistance ==
    /\ fn = "damerau_levenshtein_distance_cy" /\ pc = "call"
    /\ result' = damerau_levenshtein_distance_cy(args.seq1, args.seq2)
    /\ pc' = "done"
    /\ UNCHANGED <<fn, args, terms, pending, purityCells>>

SpecDistance == InitDistance /\ [][CallDistance]_vars

(* ------------------------------ all kernels ---------------------------- *)

Init ==
    \/ InitEnsemble \/ InitSlice \/ InitPurity \/ InitPurityWide \/ InitEcho
    \/ InitDriver \/ InitBackend \/ InitDistance

Next ==
    \/ CallEnsembleCell \/ CallCyclingSlice \/ CallPurityCellCore \/ CallEchoCellCore
    \/ NextDriver \/ CallSelectBackend \/ CallDistance

Spec == Init /\ [][Next]_vars

(* ------------------------------- claims -------------------------------- *)

\* number of positions at which two equal-length strings differ
Hamming(a, b) == Cardinality({i \in 1..Len(a) : a[i] # b[i]})

\* C1: for equal-length bitstrings, non-negative counts and shots > 0,
\* ensembleCell returns r with
\*   r * shots^2 * 2^D = (-1)^D * 2^aNum * sAiMeas * sAjMeas,
\* D the number of positions at which sAi and sAj differ.
C1_EnsembleFormula ==
    (fn = "ensembleCell" /\ pc = "done"
        /\ Len(args.sAi) = Len(args.sAj) /\ args.shots > 0)
    => /\ result.kind = "return"
       /\ LET D == Hamming(args.sAi, args.sAj)
          IN  result.value[1] * args.shots * args.shots * Pow(2, D)
              = Pow(-1, D) * Pow(2, args.aNum) * args.sAiMeas * args.sAjMeas
                * result.value[2]

\* an odd Hamming distance with positive counts: the term is negative
C1_Witness ==
    /\ fn = "ensembleCell" /\ pc = "done"
    /\ Len(args.sAi) = Len(args.sAj) /\ args.shots > 0
    /\ Hamming(args.sAi, args.sAj) = 3
    /\ args.sAiMeas = 1 /\ args.sAjMeas = 2 /\ args.aNum = 2
    /\ result = Return(<<-1, 4>>)

(* the grouped entries of a cell, stated over sets                          *)

\* the substring the cyclic extractor takes from an outcome: tail then head
\* for a wrapping range (start < 0 <= end), the contiguous slice otherwise
Extracted(k, range) ==
    IF range[1] < 0 /\ range[2] >= 0
    THEN SliceFrom(k, range[1]) \o SliceTo(k, range[2])
    ELSE Slice(k, range[1], range[2])

\* the substring of ordinary slicing k[start:end]
Sliced(k, range) == Slice(k, range[1], range[2])

\* the total of the counts of the outcomes of d whose substring is s;
\* proj[i] is the substring of the i-th outcome
RECURSIVE CountOf(_, _, _, _)
CountOf(d, proj, s, i) ==
    IF i = 0 THEN 0
    ELSE (IF proj[i] = s THEN d[i][2] ELSE 0) + CountOf(d, proj, s, i - 1)

\* the total of all the counts of d
Total(d) == CountOf(d, [i \in 1..Len(d) |-> 0], 0, Len(d))

\* the sum of ensembleCell(s, cA[s], t, cB[t], n, S) over a set P of pairs <<s, t>>
RECURSIVE SumOverPairs(_, _, _, _, _)
SumOverPairs(P, cA, cB, n, S) ==
    IF P = {} THEN RZero
    ELSE LET p == CHOOSE q \in P : TRUE
         IN  RAdd(ensembleCell(p[1], cA[p[1]], p[2], cB[p[2]], n, S).value,
                  SumOverPairs(P \ {p}, cA, cB, n, S))

\* the ordered-pair sum of a purity cell whose outcomes project by proj
PuritySum(d, proj, n) ==
    LET G == {proj[i] : i \in 1..Len(d)}
        c == [s \in G |-> CountOf(d, proj, s, Len(d))]
    IN  SumOverPairs(G \X G, c, c, n, Total(d))

\* the pair sum of an echo cell: one entry from each independently grouped series
EchoSum(d1, d2, proj1, proj2, n) ==
    LET G1 == {proj1[i] : i \in 1..Len(d1)}
        G2 == {proj2[i] : i \in 1..Len(d2)}
        c1 == [s \in G1 |-> CountOf(d1, proj1, s, Len(d1))]
        c2 == [s \in G2 |-> CountOf(d2, proj2, s, Len(d2))]
    IN  SumOverPairs(G1 \X G2, c1, c2, n, Total(d1))

\* C2: a returned purity cell is the sum of ensembleCell over all ordered
\* pairs (i = j included) of the grouped (substring, summed count) entries,
\* normalised by the total of all counts, with exponent subsystemSize; one
\* term is added per ordered pair.
C2_PurityIsOrderedPairSum ==
    (fn = "purityCellCore" /\ pc = "done" /\ result.kind = "return")
    => LET d == args.singleCounts
           proj == [i \in 1..Len(d) |-> Extracted(d[i][1], args.bitStringRange)]
           G == {proj[i] : i \in 1..Len(d)}
       IN  /\ G # {} => Total(d) > 0
           /\ result.value = PuritySum(d, proj, args.subsystemSize)
           /\ terms = Cardinality(G) * Cardinality(G)

\* two groups, all four ordered pairs summed:
\* 2^1 * ((2/3)^2 + (1/3)^2 - 2 * (2/3)(1/3)/2) = 2/3
C2_Witness ==
    /\ fn = "purityCellCore" /\ pc = "done"
    /\ Len(args.singleCounts) = 2
    /\ args.singleCounts[1][2] = 2 /\ args.singleCounts[2][2] = 1
    /\ args.bitStringRange = <<0, 1>> /\ args.subsystemSize = 1
    /\ terms = 4
    /\ result = Return(<<2, 3>>)

\* C3 as stated: one bitstring carrying all the shots gives purity exactly 1.0
\* for every subsystem size (here: the leading subsystemSize >= 1 bits of the
\* outcome, range (0, subsystemSize)).
C3_SingleOutcomeIsOne ==
    (fn = "purityCellCore" /\ pc = "done" /\ result.kind = "return"
        /\ Len(args.singleCounts) = 1 /\ args.singleCounts[1][2] > 0
        /\ args.subsystemSize \in 1..KeyLen
        /\ args.bitStringRange = <<0, args.subsystemSize>>)
    => result.value = <<1, 1>>

\* C3 amended: one bitstring carrying all the shots gives exactly
\* 2^subsystemSize (1.0 only for subsystemSize = 0) whenever the call returns.
C3_SingleOutcomeIsPowerOfTwo ==
    (fn = "purityCellCore" /\ pc = "done" /\ result.kind = "return"
        /\ Len(args.singleCounts) = 1 /\ args.singleCounts[1][2] > 0)
    => /\ result.value = <<Pow(2, args.subsystemSize), 1>>
       /\ terms = 1

C3_Witness ==
    /\ fn = "purityCellCore" /\ pc = "done"
    /\ Len(args.singleCounts) = 1 /\ args.singleCounts[1][2] = 3
    /\ args.subsystemSize = 2
    /\ result = Return(<<4, 1>>)

\* C4: a returned echo cell is the sum of ensembleCell over all ordered pairs
\* with the first entry from the grouped first series and the second entry
\* from the grouped second series (each grouped by its slice), normalised by
\* the common total; one term per such pair, none within one series.
C4_EchoIsCrossPairSum ==
    (fn = "echoCellCore" /\ pc = "done" /\ result.kind = "return")
    => LET d1 == args.firstCounts
           d2 == args.secondCounts
           proj1 == [i \in 1..Len(d1) |-> Sliced(d1[i][1], args.bitStringRange)]
           proj2 == [i \in 1..Len(d2) |-> Sliced(d2[i][1], args.bitStringRange)]
       IN  /\ Total(d1) = Total(d2)
           /\ (d1 # << >> /\ d2 # << >>) => Total(d1) > 0
           /\ result.value = EchoSum(d1, d2, proj1, proj2, args.subsystemSize)
           /\ terms = Cardinality({proj1[i] : i \in 1..Len(d1)})
                      * Cardinality({proj2[i] : i \in 1..Len(d2)})

\* two groups against one group: 2^1 * ((2/3)(3/3) - (1/3)(3/3)/2) = 1,
\* where pairing the first series with itself would give 2/3
C4_Witness ==
    /\ fn = "echoCellCore" /\ pc = "done"
    /\ Len(args.firstCounts) = 2 /\ Len(args.secondCounts) = 1
    /\ args.firstCounts[1][2] = 2 /\ args.firstCounts[2][2] = 1
    /\ args.secondCounts[1][1] = args.firstCounts[1][1]
    /\ args.bitStringRange = <<0, 1>> /\ args.subsystemSize = 1
    /\ terms = 2
    /\ result = Return(<<1, 1>>)

\* C5 as stated: the echo cell groups every outcome under the substring the
\* purity cell uses for the range, cycling_slice(outcome, start, end, 1),
\* wrapping ranges included.
C5_EchoExtractsLikePurity ==
    (fn = "echoCellCore" /\ pc = "done" /\ result.kind = "return"
        /\ -KeyLen <= args.bitStringRange[1] /\ args.bitStringRange[2] <= KeyLen)
    => \A d \in {args.firstCounts, args.secondCounts} :
          \A i \in 1..Len(d) :
             LET c == cycling_slice(d[i][1], args.bitStringRange[1],
                                    args.bitStringRange[2], 1)
             IN  c.kind = "return"
                 => SliceKeys(d, args.bitStringRange)[i] = c.value

\* C6: two series whose counts sum to different totals make the echo cell
\* fail without a value, before any pair term is accumulated.
C6_MismatchFailsFirst ==
    (fn = "echoCellCore" /\ pc = "done"
        /\ Total(args.firstCounts) # Total(args.secondCounts))
    => /\ result.kind = "raise"
       /\ terms = 0

\* the same outcome with counts 1 and 2
C6_Witness ==
    /\ fn = "echoCellCore" /\ pc = "done"
    /\ Len(args.firstCounts) = 1 /\ Len(args.secondCounts) = 1
    /\ args.firstCounts[1][1] = args.secondCounts[1][1]
    /\ args.firstCounts[1][2] = 1 /\ args.secondCounts[1][2] = 2
    /\ result.kind = "raise" /\ terms = 0

\* C7 as stated: the failure for mismatching totals is caught by
\* `except ValueError`.
C7_MismatchIsValueError ==
    (fn = "echoCellCore" /\ pc = "done"
        /\ Total(args.firstCounts) # Total(args.secondCounts))
    => /\ result.kind = "raise"
       /\ Catches("ValueError", result.exc)

\* C8: with start <= -len(target) and end >= len(target) cycling_slice raises
\* IndexError and returns nothing, for every target, the empty one included.
C8_OutOfRangeRaises ==
    (fn = "cycling_slice" /\ pc = "done"
        /\ args.start <= -Len(args.target) /\ args.end >= Len(args.target))
    => result = Raise("IndexError")

\* the empty target with the range (0, 0)
C8_Witness ==
    /\ fn = "cycling_slice" /\ pc = "done"
    /\ args.target = << >> /\ args.start = 0 /\ args.end = 0 /\ args.step = 1
    /\ result = Raise("IndexError")

\* a slice bound within [-len, len] as a position 0..len
Position(i, len) == IF i < 0 THEN i + len ELSE i

\* the characters of s at the positions lo+1..hi (1-based), lo <= hi
Between(s, lo, hi) == [j \in 1..(hi - lo) |-> s[lo + j]]

InBounds(i, len) == -len <= i /\ i <= len

\* C9 as stated: for start <= end, both within [-len, len], guard not
\* triggered, cycling_slice(s, start, end, 1) is the contiguous slice
\* s[start:end].
C9_NonWrappingIsSlice ==
    (fn = "cycling_slice" /\ pc = "done" /\ args.step = 1
        /\ args.start <= args.end
        /\ InBounds(args.start, Len(args.target))
        /\ InBounds(args.end, Len(args.target))
        /\ ~(args.start <= -Len(args.target) /\ args.end >= Len(args.target)))
    => LET len == Len(args.target)
           lo == Position(args.start, len)
           hi == Position(args.end, len)
       IN  result = Return(IF lo <= hi THEN Between(args.target, lo, hi) ELSE << >>)

\* C9 amended: the same, for bounds of one sign (both >= 0 or both < 0); a
\* negative start with a non-negative end is treated as a wrapping range.
C9_SameSignIsSlice ==
    (fn = "cycling_slice" /\ pc = "done" /\ args.step = 1
        /\ args.start <= args.end
        /\ InBounds(args.start, Len(args.target))
        /\ InBounds(args.end, Len(args.target))
        /\ ~(args.start < 0 /\ args.end >= 0)
        /\ ~(args.start <= -Len(args.target) /\ args.end >= Len(args.target)))
    => LET len == Len(args.target)
           lo == Position(args.start, len)
           hi == Position(args.end, len)
       IN  result = Return(Between(args.target, lo, hi))

\* "011"[-2:-1] = "1"
C9_Witness ==
    /\ fn = "cycling_slice" /\ pc = "done"
    /\ args.target = <<0, 1, 1>> /\ args.start = -2 /\ args.end = -1
    /\ args.step = 1
    /\ result = Return(<<1>>)

\* C10 as stated: for normalized non-negative bounds with start > end
\* (0 <= end < start <= len), cycling_slice(s, start, end, 1) is
\* s[start:] + s[:end].
C10_NormalizedWrapConcatenates ==
    (fn = "cycling_slice" /\ pc = "done" /\ args.step = 1
        /\ 0 <= args.end /\ args.end < args.start
        /\ args.start <= Len(args.target))
    => result = Return(Between(args.target, args.start, Len(args.target))
                       \o Between(args.target, 0, args.end))

\* C10 amended: the range that wraps from position p to position q
\* (0 <= q < p < len) is extracted as s[p:] + s[:q] when it is given with the
\* negative start p - len, cycling_slice(s, p - len, q, 1); given with the
\* normalized bounds, cycling_slice(s, p, q, 1) for 0 <= q < p <= len is the
\* empty string.
C10_NegativeStartWrapConcatenates ==
    (fn = "cycling_slice" /\ pc = "done" /\ args.step = 1)
    => LET len == Len(args.target)
       IN  /\ (args.start < 0 /\ 0 <= args.end /\ args.end < args.start + len)
              => result = Return(Between(args.target, args.start + len, len)
                                 \o Between(args.target, 0, args.end))
           /\ (0 <= args.end /\ args.end < args.start /\ args.start <= len)
              => result = Return(<< >>)

\* "011" from position 2 wrapping to position 1: "1" + "0"
C10_Witness ==
    /\ fn = "cycling_slice" /\ pc = "done"
    /\ args.target = <<0, 1, 1>> /\ args.start = -1 /\ args.end = 1
    /\ args.step = 1
    /\ result = Return(<<1, 0>>)

\* s reversed
Reverse(s) == [i \in 1..Len(s) |-> s[Len(s) + 1 - i]]

\* the first character of s and every k-th one after it, k > 0
RECURSIVE EveryNth(_, _)
EveryNth(s, k) ==
    IF s = << >> THEN << >>
    ELSE <<Head(s)>> \o EveryNth(IF k >= Len(s) THEN << >>
                                 ELSE SubSeq(s, k + 1, Len(s)), k)

\* s[::step] for step # 0
Strided(s, step) ==
    IF step > 0 THEN EveryNth(s, step) ELSE EveryNth(Reverse(s), -step)

\* C11: for every non-zero step, cycling_slice(s, a, b, step) is the step-1
\* result strided afterwards, cycling_slice(s, a, b, 1)[::step] (raising
\* exactly when the step-1 call raises); step = -1 gives the exact reversal
\* of the step-1 result, for wrapping ranges too.
C11_StrideAppliedLast ==
    (fn = "cycling_slice" /\ pc = "done" /\ args.step # 0)
    => LET base == cycling_slice(args.target, args.start, args.end, 1)
       IN  IF base.kind = "raise" THEN result = base
           ELSE /\ result = Return(Strided(base.value, args.step))
                /\ args.step = -1 => result = Return(Reverse(base.value))

\* the wrapping range (-2, 1) of "011" reversed: ("11" + "0")[::-1] = "011"
C11_Witness ==
    /\ fn = "cycling_slice" /\ pc = "done"
    /\ args.target = <<0, 1, 1>> /\ args.start = -2 /\ args.end = 1
    /\ args.step = -1
    /\ result = Return(<<0, 1, 1>>)

\* C12 as stated: a purity cell over an empty counts mapping, or over counts
\* whose total is zero, ends in an error and returns no number.
\* (here: over the leading subsystemSize >= 1 bits, range (0, subsystemSize))
C12_ZeroTotalFails ==
    (fn = "purityCellCore" /\ pc = "done" /\ Total(args.singleCounts) = 0
        /\ args.subsystemSize \in 1..KeyLen
        /\ args.bitStringRange = <<0, args.subsystemSize>>)
    => result.kind = "raise"

\* C14: ensembleCell is symmetric under exchanging its two
\* (bitstring, count) arguments.
C14_EnsembleSymmetric ==
    (fn = "ensembleCell" /\ pc = "done")
    => result = ensembleCell(args.sAj, args.sAjMeas, args.sAi, args.sAiMeas,
                             args.aNum, args.shots)

\* different bitstrings with different counts: 2^1 * (-1/2) * (1/2)(2/2)
C14_Witness ==
    /\ fn = "ensembleCell" /\ pc = "done"
    /\ args.sAi = <<0, 1>> /\ args.sAj = <<1, 1>>
    /\ args.sAiMeas = 1 /\ args.sAjMeas = 2
    /\ args.aNum = 1 /\ args.shots = 2
    /\ result = Return(<<-1, 2>>)

\* the keys of a counts dict have different lengths
Malformed(d) == \E i, j \in 1..Len(d) : Len(d[i][1]) # Len(d[j][1])

\* C13 as stated: a cell whose outcome keys have different lengths makes the
\* cell computation fail (here: the bits (0, subsystemSize) of the outcomes,
\* the longest outcome having subsystemSize bits, so that the extracted
\* substrings have different lengths too).
C13_MalformedCellFails ==
    (fn = "purityCellCore" /\ pc = "done"
        /\ Malformed(args.singleCounts)
        /\ args.bitStringRange = <<0, args.subsystemSize>>
        /\ (\A i \in 1..Len(args.singleCounts) :
               Len(args.singleCounts[i][1]) <= args.subsystemSize)
        /\ (\E j \in 1..Len(args.singleCounts) :
               Len(args.singleCounts[j][1]) = args.subsystemSize))
    => result.kind = "raise"

\* the grouped entries of d as a counts dict: one item per substring of G
RECURSIVE MergedDict(_, _, _)
MergedDict(G, d, proj) ==
    IF G = {} THEN << >>
    ELSE LET s == CHOOSE x \in G : TRUE
         IN  <<<<s, CountOf(d, proj, s, Len(d))>>>> \o MergedDict(G \ {s}, d, proj)

\* the purity cell of the merged counts of d over the range (0, n)
PurityOfMerged(d, range, n) ==
    LET proj == [i \in 1..Len(d) |-> Sliced(d[i][1], range)]
    IN  purityCellCore(MergedDict({proj[i] : i \in 1..Len(d)}, d, proj),
                       <<0, n>>, n)

\* outcomes of one length L and a range 0 <= a <= b <= L of size subsystemSize
UniformNonWrapping ==
    /\ ~Malformed(args.singleCounts)
    /\ 0 <= args.bitStringRange[1]
    /\ args.bitStringRange[1] <= args.bitStringRange[2]
    /\ args.bitStringRange[2] <= Len(args.singleCounts[1][1])
    /\ args.subsystemSize = args.bitStringRange[2] - args.bitStringRange[1]

\* C15 as stated: for L-bit outcomes and every non-wrapping range (a, b) with
\* b - a = n, purityCellCore(counts, (a, b), n) equals
\* purityCellCore(merged, (0, n), n).
C15_MergedCellAgrees ==
    (fn = "purityCellCore" /\ pc = "done" /\ UniformNonWrapping)
    => result = PurityOfMerged(args.singleCounts, args.bitStringRange,
                               args.subsystemSize)

\* C15 amended: the same for every non-empty non-wrapping range (a < b, so
\* n >= 1); for an empty range a = b > 0 the cell of the counts returns while
\* the cell of the merged counts over (0, 0) raises IndexError.
C15_MergedCellAgreesNonEmpty ==
    (fn = "purityCellCore" /\ pc = "done" /\ UniformNonWrapping
        /\ args.bitStringRange[1] < args.bitStringRange[2])
    => result = PurityOfMerged(args.singleCounts, args.bitStringRange,
                               args.subsystemSize)

\* {"00": 1, "01": 2} over the first bit merges into {"0": 3}: 2^1 * (3/3)^2
C15_Witness ==
    /\ fn = "purityCellCore" /\ pc = "done"
    /\ args.singleCounts = << <<(<<0, 0>>), 1>>, <<(<<0, 1>>), 2>> >>
    /\ args.bitStringRange = <<0, 1>> /\ args.subsystemSize = 1
    /\ terms = 1
    /\ result = Return(<<2, 1>>)

(* the reference backend, from the component contracts                      *)

\* Cyclic Extractor: the contiguous substring, or tail + head for a range
\* wrapping around the end; IndexError for start <= -length and end >= length
extract(outcome, start, end) ==
    IF start <= -Len(outcome) /\ end >= Len(outcome) THEN Raise("IndexError")
    ELSE Return(Extracted(outcome, <<start, end>>))

\* Echo Cell: both series grouped independently by their extracted
\* substrings, ensemble summed over all pairs drawn one from each grouped set
echoCellReference(firstCounts, secondCounts, range, n) ==
    LET x1 == [i \in 1..Len(firstCounts) |->
                  extract(firstCounts[i][1], range[1], range[2])]
        x2 == [i \in 1..Len(secondCounts) |->
                  extract(secondCounts[i][1], range[1], range[2])]
    IN  IF Total(firstCounts) # Total(secondCounts) THEN Raise("ValueError")
        ELSE IF \E i \in 1..Len(x1) : x1[i].kind = "raise"
        THEN Raise("IndexError")
        ELSE IF \E i \in 1..Len(x2) : x2[i].kind = "raise"
        THEN Raise("IndexError")
        ELSE Return(EchoSum(firstCounts, secondCounts,
                            [i \in 1..Len(x1) |-> x1[i].value],
                            [i \in 1..Len(x2) |-> x2[i].value], n))

NumCells == Len(args.counts)
MeasuredBits == Len(args.counts[1][1][1])

SpecWindow(spec, L) ==
    IF spec[1] = "int" THEN spec[2]
    ELSE LET a == IF spec[2] < 0 THEN spec[2] + L ELSE spec[2]
             b == IF spec[3] < 0 THEN spec[3] + L ELSE spec[3]
         IN  IF a > b THEN L - a + b ELSE b - a

\* C18: when the window size after normalization is <= 0 or exceeds the
\* measured length, the call ends with InvalidPartitionError, no cell is ever
\* dispatched or computed and no Result is returned.
C18_InvalidPartitionRejected ==
    (fn = "aggregate"
        /\ (SpecWindow(args.degree, MeasuredBits) <= 0
            \/ SpecWindow(args.degree, MeasuredBits) > MeasuredBits))
    => /\ pc \in {"call", "done"}
       /\ pending = {}
       /\ purityCells = << >>
       /\ pc = "done" => result = Raise("InvalidPartitionError")

C18_Witness ==
    /\ fn = "aggregate" /\ pc = "done"
    /\ args.degree = PairSpec(0, MeasuredBits + 1)
    /\ NumCells = 2
    /\ result = Raise("InvalidPartitionError")
    /\ purityCells = << >>

\* C19: N >= 2 identical cells give a table of exactly N entries keyed
\* 0..N-1, all equal, a mean purity equal to that common value, a cell count
\* of N and purity and entropy standard deviations of exactly 0.
C19_IdenticalCells ==
    (fn = "aggregate" /\ pc = "done" /\ result.kind = "return"
        /\ NumCells >= 2
        /\ \A i \in 1..NumCells : args.counts[i] = args.counts[1])
    => LET R == result.value
       IN  /\ DOMAIN R.purityCells = 0..(NumCells - 1)
           /\ \A i \in DOMAIN R.purityCells : R.purityCells[i] = R.purityCells[0]
           /\ R.purity = R.purityCells[0]
           /\ R.countsNum = NumCells
           /\ R.puritySD = RZero
           /\ R.entropySD = RZero

C19_Witness ==
    /\ fn = "aggregate" /\ pc = "done" /\ result.kind = "return"
    /\ NumCells = 2
    /\ args.counts[1] = args.counts[2]
    /\ Len(args.counts[1]) = 2
    /\ args.degree = IntSpec(1)
    /\ result.value.countsNum = 2
    /\ result.value.puritySD = RZero

\* the value of the cell at position i on the resolved partition
ValueOfCell(i) ==
    LET L == MeasuredBits
        r == resolve(args.degree, L).value
    IN  purityCellCore(args.counts[i + 1],
                       IF r[3] THEN <<r[1] - L, r[2]>> ELSE <<r[1], r[2]>>,
                       SpecWindow(args.degree, L))

\* C20: under every order of completion each stored value is the value of
\* the cell it is stored under; the completed and the pending indices split
\* 0..N-1 without overlap, and the Result holds the value of cell i under i
\* for every i.
C20_IndexedByCell ==
    (fn = "aggregate" /\ pc \in {"wait", "done"} /\ result.kind # "raise")
    => /\ \A i \in DOMAIN purityCells : purityCells[i] = ValueOfCell(i)
       /\ DOMAIN purityCells \cap pending = {}
       /\ DOMAIN purityCells \cup pending = 0..(NumCells - 1)
       /\ pc = "done" =>
              result.value.purityCells =
                  [i \in 0..(NumCells - 1) |-> ValueOfCell(i).value]

\* the second cell completed before the first, and their values differ
C20_Witness ==
    /\ fn = "aggregate" /\ pc = "wait"
    /\ NumCells = 2
    /\ pending = {0}
    /\ DOMAIN purityCells = {1}
    /\ purityCells[1] # ValueOfCell(0)
    /\ purityCells[1].kind = "return"

\* C21: no Result exists while a cell is pending: a returned Result holds a
\* value for every dispatched cell; and once every dispatched cell has
\* completed, the call eventually returns a Result.
C21_AggregateAfterJoin ==
    /\ []((fn = "aggregate" /\ result.kind = "return")
             => (pc = "done" /\ pending = {}
                 /\ DOMAIN result.value.purityCells = 0..(NumCells - 1)
                 /\ result.value.countsNum = NumCells))
    /\ ((fn = "aggregate" /\ pc = "wait" /\ pending = {})
           ~> (pc = "done" /\ result.kind = "return"))

C21_Witness ==
    /\ fn = "aggregate" /\ pc = "done" /\ result.kind = "return"
    /\ NumCells = MaxCells
    /\ pending = {}
    /\ DOMAIN result.value.purityCells = 0..(MaxCells - 1)

\* the position of a tier in the priority order tier 2, tier 1, reference
Priority(b) == CHOOSE k \in 1..3 : <<"Rust", "Cython", "Python">>[k] = b

\* C22: an unpinned call whose preferred tier is unavailable runs on the first
\* available backend in the order tier 2, tier 1, reference and emits a
\* warning; a call that pinned an unavailable backend fails and runs on no
\* backend.
C22_BackendFallback ==
    (fn = "selectBackend" /\ pc = "done" /\ args.row[args.backend] # "True")
    => /\ args.pinned => result.kind = "raise"
       /\ (~args.pinned /\ \E b \in DOMAIN args.row : args.row[b] = "True")
          => /\ result.kind = "return"
             /\ result.value.warning
             /\ args.row[result.value.backend] = "True"
             /\ \A b \in DOMAIN args.row :
                    args.row[b] = "True"
                    => Priority(result.value.backend) <= Priority(b)

\* tier 2 not supported, tier 1 failing: the unpinned call warns and runs on
\* the reference backend
C22_Witness ==
    /\ fn = "selectBackend" /\ pc = "done"
    /\ ~args.pinned
    /\ args.row = [b \in {"Rust", "Cython", "Python"} |->
                      IF b = "Rust" THEN "None" ELSE IF b = "Cython" THEN "False"
                      ELSE "True"]
    /\ result = Return([backend |-> "Python", warning |-> TRUE])

\* C23: a call of purityCellCore or echoCellCore, whether it returns or
\* raises, leaves every supplied counts dict with the keys and counts it had
\* before the call.
C23_InputsUnchanged ==
    [][(fn \in {"purityCellCore", "echoCellCore"} /\ pc = "call" /\ pc' = "done")
          => /\ result'.kind \in {"return", "raise"}
             /\ args' = args]_vars

\* a purity call that merged two outcomes into one group and returned
C23_Witness ==
    /\ fn = "purityCellCore" /\ pc = "done" /\ result.kind = "return"
    /\ Len(args.singleCounts) = 2
    /\ args.singleCounts[1][2] >= 1 /\ args.singleCounts[2][2] >= 1
    /\ args.bitStringRange = <<0, 0>>
    /\ terms = 1

(* ------------------------- distance properties ------------------------- *)

\* the sequences one edit away from s, none longer than n: an item added,
\* deleted or substituted, or two consecutive items exchanged
OneEdit(s, n) ==
    {[i \in 1..(Len(s) - 1) |-> IF i < k THEN s[i] ELSE s[i + 1]] : k \in 1..Len(s)}
    \cup {[s EXCEPT ![k] = c] : k \in 1..Len(s), c \in Items}
    \cup {[i \in 1..Len(s) |-> IF i = k THEN s[k + 1] ELSE IF i = k + 1 THEN s[k]
                               ELSE s[i]] : k \in 1..(Len(s) - 1)}
    \cup (IF Len(s) >= n THEN {}
          ELSE {[i \in 1..(Len(s) + 1) |-> IF i < k THEN s[i] ELSE IF i = k THEN c
                                           ELSE s[i - 1]] :
                   k \in 1..(Len(s) + 1), c \in Items})

\* the sequences at most k edits away from s
RECURSIVE Within(_, _, _)
Within(s, k, n) ==
    IF k = 0 THEN {s}
    ELSE LET B == Within(s, k - 1, n) IN B \cup UNION {OneEdit(u, n) : u \in B}

\* the least number of edits that transform s into t
MinEdits(s, t) ==
    LET n == Max(Len(s), Len(t))
    IN  CHOOSE k \in 0..n :
            /\ t \in Within(s, k, n)
            /\ k > 0 => t \notin Within(s, k - 1, n)

\* C24 as stated: for sequences seq1 and seq2 the call returns the minimum
\* number of additions, deletions, substitutions and transpositions of
\* consecutive items that transform seq1 into seq2.
C24_MinimumEdits ==
    (fn = "damerau_levenshtein_distance_cy" /\ pc = "done"
        /\ args.seq1 # None /\ args.seq2 # None)
    => result = Return(MinEdits(args.seq1, args.seq2))

\* the distance laws on two sequences: symmetry, zero exactly for equal
\* sequences, the length of the other when one is empty, and the dynamic
\* programme without the stripping of the common prefix gives the same value
DistanceLaws(seq1, seq2) ==
    LET d == damerau_levenshtein_distance_cy(seq1, seq2)
    IN  /\ d.kind = "return"
        /\ d = damerau_levenshtein_distance_cy(seq2, seq1)
        /\ (d.value = 0) <=> (seq1 = seq2)
        /\ Len(seq1) = 0 => d.value = Len(seq2)
        /\ Len(seq2) = 0 => d.value = Len(seq1)
        /\ (Len(seq1) > 0 /\ Len(seq2) > 0) => d.value = lastRow(seq1, seq2)

\* C30 as stated: on sequences the distance is symmetric, zero exactly for
\* equal sequences and unchanged by the stripping of the common prefix; and
\* when one argument is empty or None (and not both are None) the call
\* returns, with the length of the other when the other is a sequence.
C30_DistanceLaws ==
    (fn = "damerau_levenshtein_distance_cy" /\ pc = "done"
        /\ ~(args.seq1 = None /\ args.seq2 = None))
    => /\ (args.seq1 # None /\ args.seq2 # None)
          => (result.kind = "return" /\ DistanceLaws(args.seq1, args.seq2))
       /\ (args.seq1 = None \/ args.seq1 = << >>)
          => /\ result.kind = "return"
             /\ args.seq2 # None => result.value = Len(args.seq2)
       /\ (args.seq2 = None \/ args.seq2 = << >>)
          => /\ result.kind = "return"
             /\ args.seq1 # None => result.value = Len(args.seq1)

\* the laws of C30 where both arguments are sequences, and the length of the
\* sequence when the other argument is None
DistanceLawsOnSequences ==
    (fn = "damerau_levenshtein_distance_cy" /\ pc = "done")
    => /\ (args.seq1 # None /\ args.seq2 # None)
          => (result = damerau_levenshtein_distance_cy(args.seq1, args.seq2)
              /\ DistanceLaws(args.seq1, args.seq2))
       /\ (args.seq1 = None /\ args.seq2 # None) => result = Return(Len(args.seq2))
       /\ (args.seq2 = None /\ args.seq1 # None /\ args.seq1 # << >>)
          => result = Return(Len(args.seq1))

(* ------------------------ branches of cycling_slice -------------------- *)

\* the characters of s from position lo (from 0) to the end, then those
\* before position hi
TailThenHead(s, lo, hi) ==
    [j \in 1..((Len(s) - lo) + hi) |->
        IF j <= Len(s) - lo THEN s[lo + j] ELSE s[j - (Len(s) - lo)]]

\* position i of a slice bound in a sequence of length len, clipped
Clipped(i, len) ==
    LET p == IF i < 0 THEN i + len ELSE i
    IN  IF p < 0 THEN 0 ELSE IF p > len THEN len ELSE p

\* C25: when the call returns with step 1: for a non-empty target with
\* start < 0 and end >= 0 the result is target[start:] + target[:end]; in
\* every other case it is target[start:end]; for an empty target it is the
\* empty string, and then start > 0 or end < 0.
C25_BranchOfCyclingSlice ==
    (fn = "cycling_slice" /\ pc = "done" /\ result.kind = "return" /\ args.step = 1)
    => LET s == args.target
           lo == Clipped(args.start, Len(s))
           hi == Clipped(args.end, Len(s))
       IN  /\ (Len(s) > 0 /\ args.start < 0 /\ args.end >= 0)
              => result.value = TailThenHead(s, lo, hi)
           /\ (Len(s) > 0 /\ ~(args.start < 0 /\ args.end >= 0))
              => result.value = (IF lo >= hi THEN << >> ELSE Between(s, lo, hi))
           /\ Len(s) = 0
              => (result.value = << >> /\ (args.start > 0 \/ args.end < 0))

C25_Witness ==
    /\ fn = "cycling_slice" /\ pc = "done"
    /\ args.target = <<1, 0, 0>> /\ args.start = -2 /\ args.end = 1
    /\ args.step = 1
    /\ result = Return(<<0, 0, 1>>)

\* C26 as stated: whenever cycling_slice(s, start, end) returns with step 1
\* (here: for bounds within [-len(s), len(s)]), the extracted string is no longer than s, and a wrapping extraction takes
\* its head from before the start of its tail, so that no position of s is
\* included twice.
C26_NoOverlap ==
    (fn = "cycling_slice" /\ pc = "done" /\ result.kind = "return" /\ args.step = 1
        /\ InBounds(args.start, Len(args.target))
        /\ InBounds(args.end, Len(args.target)))
    => /\ Len(result.value) <= Len(args.target)
       /\ (Len(args.target) > 0 /\ args.start < 0 /\ args.end >= 0)
          => Clipped(args.end, Len(args.target))
                 <= Clipped(args.start, Len(args.target))

(* ------------------------------ claim C27 ------------------------------ *)

\* the grouping of counts under cycling_slice(outcome, start, end, 1): a
\* call record, raising when one of the cycling_slice calls raises
GroupedByCyclingSlice(counts, range) ==
    LET calls == CyclingCalls(counts, range)
    IN  IF \E i \in 1..Len(calls) : calls[i].kind = "raise"
        THEN Raise("IndexError")
        ELSE LET ks == [i \in 1..Len(calls) |-> calls[i].value]
             IN  Return(Accumulate(counts, ks, 1, FromKeys(ks, << >>)))

\* C27: for non-empty outcome keys, whenever purityCellCore returns, the
\* branch chosen on the dummy string (plain slicing or cycling_slice) groups
\* every outcome under cycling_slice(outcome, start, end, 1): no such call
\* raises and singleCountsUnderDegree is the grouping by these values.
C27_GroupedUnderCyclingSlice ==
    (fn = "purityCellCore" /\ pc = "done" /\ result.kind = "return"
        /\ \A i \in 1..Len(args.singleCounts) : args.singleCounts[i][1] # << >>)
    => /\ GroupedByCyclingSlice(args.singleCounts, args.bitStringRange).kind = "return"
       /\ purityGroup(args.singleCounts, args.bitStringRange, args.subsystemSize)
              = GroupedByCyclingSlice(args.singleCounts, args.bitStringRange)

\* a returned call on a wrapping range (start < 0 <= end) with two outcomes
\* that are extracted differently by plain slicing
C27_Witness ==
    /\ fn = "purityCellCore" /\ pc = "done" /\ result.kind = "return"
    /\ args.bitStringRange[1] < 0 /\ args.bitStringRange[2] >= 0
    /\ Len(args.singleCounts) = 2
    /\ SliceKeys(args.singleCounts, args.bitStringRange)
           # [i \in 1..2 |-> CyclingCalls(args.singleCounts,
                                            args.bitStringRange)[i].value]

(* ------------------------------ claim C28 ------------------------------ *)

\* 0 <= a <= b <= L for every outcome length L of counts
NonWrapping(counts, range) ==
    /\ 0 <= range[1] /\ range[1] <= range[2]
    /\ \A i \in 1..Len(counts) : range[2] <= Len(counts[i][1])

\* C28 as stated: for every counts mapping c with positive total and every
\* non-wrapping range, echoCellCore(c, c, range, n) equals
\* purityCellCore(c, range, n), for every n; and echoCellCore is symmetric
\* in its two series.
C28_EchoSelfIsPurity ==
    (fn = "echoCellCore" /\ pc = "done")
    => /\ (/\ args.firstCounts = args.secondCounts
           /\ SumValues(args.firstCounts) > 0
           /\ NonWrapping(args.firstCounts, args.bitStringRange))
          => result = purityCellCore(args.firstCounts, args.bitStringRange,
                                     args.subsystemSize)
       /\ result = echoCellCore(args.secondCounts, args.firstCounts,
                                args.bitStringRange, args.subsystemSize)

\* C28, amended: the same for subsystemSize n >= 1 (for n = 0 the check of
\* purityCellCore on the empty dummy string raises IndexError while
\* echoCellCore returns), the values compared as exact numbers.
C28_EchoSelfIsPuritySized ==
    (fn = "echoCellCore" /\ pc = "done")
    => /\ (/\ args.firstCounts = args.secondCounts
           /\ SumValues(args.firstCounts) > 0
           /\ NonWrapping(args.firstCounts, args.bitStringRange)
           /\ args.subsystemSize >= 1)
          => result = purityCellCore(args.firstCounts, args.bitStringRange,
                                     args.subsystemSize)
       /\ result = echoCellCore(args.secondCounts, args.firstCounts,
                                args.bitStringRange, args.subsystemSize)

\* the echo of a series of two outcomes with itself on the range (0, 0),
\* where the two outcomes merge: the value 2^n of the purity cell
C28_Witness ==
    /\ fn = "echoCellCore" /\ pc = "done"
    /\ args.firstCounts = args.secondCounts
    /\ Len(args.firstCounts) = 2
    /\ args.bitStringRange = <<0, 0>> /\ args.subsystemSize = 1
    /\ result = Return(<<2, 1>>)
    /\ result = purityCellCore(args.firstCounts, args.bitStringRange,
                               args.subsystemSize)

(* ------------------------------ claim C29 ------------------------------ *)

\* all keys of the grouped counts have the same length
SameLength(g) ==
    \A i, j \in 1..Len(g) : Len(g[i][1]) = Len(g[j][1])

\* C29: for every non-empty counts mapping with positive total and every
\* range whose extracted substrings all have the same length,
\* purityCellCore returns a value > 0 (exact arithmetic), whereas
\* echoCellCore can return a negative value: the echo of {'0': 1} with
\* {'1': 1} on the range (0, 1), subsystemSize 1, is -1.
C29_PurityPositive ==
    /\ echoCellCore(<< <<(<<0>>), 1>> >>, << <<(<<1>>), 1>> >>, <<0, 1>>, 1)
           = Return(<<-1, 1>>)
    /\ LET g == purityGroup(args.singleCounts, args.bitStringRange,
                            args.subsystemSize)
       IN  (/\ fn = "purityCellCore" /\ pc = "done"
            /\ args.singleCounts # << >>
            /\ SumValues(args.singleCounts) > 0
            /\ g.kind = "return"
            /\ SameLength(g.value))
           => /\ result.kind = "return"
              /\ result.value[1] > 0 /\ result.value[2] > 0

\* two outcomes of one bit measured once each: the purity cell 1/2
C29_Witness ==
    /\ fn = "purityCellCore" /\ pc = "done"
    /\ Len(args.singleCounts) = 2
    /\ \A i \in 1..2 : Len(args.singleCounts[i][1]) = 1
                        /\ args.singleCounts[i][2] = 1
    /\ args.bitStringRange = <<0, 1>> /\ args.subsystemSize = 1
    /\ terms = 4
    /\ result = Return(<<1, 2>>)

====
